---- MODULE Spec2Model ----
(***************************************************************************)
(* Model of two parts of runc's libcontainer:                              *)
(*   - the seccomp filter compiler, libcontainer/seccomp/seccomp_linux.go  *)
(*     (InitSeccomp, setFlag, getAction, getOperator, getCondition,        *)
(*     matchCall);                                                         *)
(*   - the process handles of libcontainer/restored_process.go             *)
(*     (restoredProcess, nonChildProcess).                                 *)
(* The libseccomp library and the kernel are the environment: every call   *)
(* into them is recorded, in order, in the trace `ops`.                    *)
(***************************************************************************)
EXTENDS Integers, Sequences, FiniteSets, TLC

VARIABLES
    config,     \* the *configs.Seccomp handed to InitSeccomp
    apiLevel,   \* what libseccomp.GetAPI reports
    pc,         \* position of the run inside InitSeccomp
    idx,        \* index of the range loop the run is in
    ops,        \* the library calls issued so far, in order
    failed,     \* the positions in ops of the library calls that returned an error
    result,     \* "running", "ok", "panic" or the error returned
    fd,         \* the *os.File returned: "nil" or "seccompFd"
    run,        \* 1 for the first compilation of config, 2 for the second
    prev,       \* ops, failed, result and fd of the first compilation
    proc,       \* a process handle (restoredProcess or nonChildProcess)
    last        \* the last method called on proc and what it returned

vars == <<config, apiLevel, pc, idx, ops, failed, result, fd, run, prev, proc, last>>

(***************************************************************************)
(* Bounds of the model.                                                    *)
(***************************************************************************)
\* most syscall entries in an enumerated policy
MaxCalls == 2
\* most argument conditions on one syscall entry
MaxArgs == 3

SeqsUpTo(S, n) == UNION {[1..k -> S] : k \in 0..n}

SeqsFromTo(S, m, n) == UNION {[1..k -> S] : k \in m..n}

(***************************************************************************)
(* Program constants.                                                      *)
(***************************************************************************)
\* const syscallMaxArguments int = 6
syscallMaxArguments == 6
\* unix.EPERM, the return code of actErrno and actTrace
EPERM == 1
\* apiLevel < 6 rejects notify
minNotifyAPI == 6
\* len(config.Syscalls) > 32 asks for the binary tree
optimizeOver == 32
\* filter.SetOptimize(2)
optimizeLevel == 2
\* int16(*errnoRet) keeps the low 16 bits
retCodeBits == 16

(***************************************************************************)
(* libseccomp: actions, operators, conditions, the syscall table.          *)
(***************************************************************************)
\* configs.Action values; "Invalid" stands for any value outside the enum
Actions == {"Kill", "KillThread", "Errno", "Trap", "Allow", "Trace", "Log", "Notify", "KillProcess", "Invalid"}

\* configs.Operator values; "Invalid" stands for any value outside the enum
Operators == {"EqualTo", "NotEqualTo", "GreaterThan", "GreaterThanOrEqualTo", "LessThan", "LessThanOrEqualTo", "MaskEqualTo", "Invalid"}

\* ScmpAction.SetReturnCode: only ActErrno and ActTrace carry a return code
SetReturnCode(act, code) ==
    IF act \in {"ActErrno", "ActTrace"}
    THEN [act |-> act, rc |-> code % (2 ^ retCodeBits)]
    ELSE [act |-> act, rc |-> 0]

actTrace == SetReturnCode("ActTrace", EPERM)

actErrno == SetReturnCode("ActErrno", EPERM)

\* a libseccomp action without return code
Plain(act) == [act |-> act, rc |-> 0]

\* getAction: the converted action and whether the conversion failed.
\* errnoRet is a pointer: <<>> is nil, <<v>> points to v.
getAction(act, errnoRet) ==
    CASE act \in {"Kill", "KillThread"} -> [a |-> Plain("ActKillThread"), err |-> FALSE]
      [] act = "Errno" ->
            IF errnoRet # <<>>
            THEN [a |-> SetReturnCode("ActErrno", errnoRet[1]), err |-> FALSE]
            ELSE [a |-> actErrno, err |-> FALSE]
      [] act = "Trap" -> [a |-> Plain("ActTrap"), err |-> FALSE]
      [] act = "Allow" -> [a |-> Plain("ActAllow"), err |-> FALSE]
      [] act = "Trace" ->
            IF errnoRet # <<>>
            THEN [a |-> SetReturnCode("ActTrace", errnoRet[1]), err |-> FALSE]
            ELSE [a |-> actTrace, err |-> FALSE]
      [] act = "Log" -> [a |-> Plain("ActLog"), err |-> FALSE]
      [] act = "Notify" -> [a |-> Plain("ActNotify"), err |-> FALSE]
      [] act = "KillProcess" -> [a |-> Plain("ActKillProcess"), err |-> FALSE]
      [] OTHER -> [a |-> Plain("ActInvalid"), err |-> TRUE]

\* getOperator: the converted comparison and whether the conversion failed
getOperator(op) ==
    CASE op = "EqualTo" -> [o |-> "CompareEqual", err |-> FALSE]
      [] op = "NotEqualTo" -> [o |-> "CompareNotEqual", err |-> FALSE]
      [] op = "GreaterThan" -> [o |-> "CompareGreater", err |-> FALSE]
      [] op = "GreaterThanOrEqualTo" -> [o |-> "CompareGreaterEqual", err |-> FALSE]
      [] op = "LessThan" -> [o |-> "CompareLess", err |-> FALSE]
      [] op = "LessThanOrEqualTo" -> [o |-> "CompareLessOrEqual", err |-> FALSE]
      [] op = "MaskEqualTo" -> [o |-> "CompareMaskedEqual", err |-> FALSE]
      [] OTHER -> [o |-> "CompareInvalid", err |-> TRUE]

\* the zero libseccomp.ScmpCondition{}
zeroCondition == [Argument |-> 0, Op |-> "CompareInvalid", Operand1 |-> 0, Operand2 |-> 0]

\* libseccomp.MakeCondition as called by getCondition: it refuses an argument
\* index that is not one of the six arguments of a syscall
MakeCondition(index, op, value, valueTwo) ==
    IF index >= syscallMaxArguments
    THEN [c |-> zeroCondition, err |-> TRUE]
    ELSE [c |-> [Argument |-> index, Op |-> op, Operand1 |-> value, Operand2 |-> valueTwo],
          err |-> FALSE]

\* getCondition: a *configs.Arg to a condition, or an error
getCondition(arg) ==
    IF arg.nil
    THEN [c |-> zeroCondition, err |-> TRUE]
    ELSE IF getOperator(arg.Op).err
         THEN [c |-> zeroCondition, err |-> TRUE]
         ELSE MakeCondition(arg.Index, getOperator(arg.Op).o, arg.Value, arg.ValueTwo)

\* the syscall numbers the running kernel knows (x86_64 numbering)
SyscallTable == [read |-> 0, write |-> 1, getpid |-> 39, openat |-> 257]

\* libseccomp.GetSyscallFromName: the number, or an error for an unknown name
GetSyscallFromName(name) ==
    IF name \in DOMAIN SyscallTable
    THEN [num |-> SyscallTable[name], err |-> FALSE]
    ELSE [num |-> 0 - 1, err |-> TRUE]

\* libseccomp.GetArchFromString knows these architectures
KnownArchs == {"amd64", "arm"}

(***************************************************************************)
(* The inputs: seccomp policies and the library the run meets.             *)
(***************************************************************************)
\* a *configs.Arg; nil marks the nil pointer
Arg(index, op, value, valueTwo) ==
    [nil |-> FALSE, Index |-> index, Op |-> op, Value |-> value, ValueTwo |-> valueTwo]

NilArg == [nil |-> TRUE, Index |-> 0, Op |-> "Invalid", Value |-> 0, ValueTwo |-> 0]

\* a *configs.Syscall; nil marks the nil pointer
Syscall(name, action, errnoRet, args) ==
    [nil |-> FALSE, Name |-> name, Action |-> action, ErrnoRet |-> errnoRet, Args |-> args]

NilCall == [nil |-> TRUE, Name |-> "", Action |-> "Invalid", ErrnoRet |-> <<>>, Args |-> <<>>]

\* the argument conditions policies are built from: two on argument 0, one on
\* argument 1, one on argument 2, and a nil pointer
ArgPool ==
    { Arg(0, "EqualTo", 1, 0), Arg(0, "GreaterThan", 7, 0), Arg(1, "NotEqualTo", 2, 0),
      Arg(2, "MaskEqualTo", 3, 1), NilArg }

\* the syscall entries without conditions policies are built from
SimpleCalls ==
    { NilCall,
      Syscall("write", "Notify", <<>>, <<>>),
      Syscall("getpid", "Notify", <<>>, <<>>),
      Syscall("read", "Errno", <<EPERM>>, <<>>),
      Syscall("getpid", "Trap", <<>>, <<>>),
      Syscall("newcall", "Trap", <<>>, <<>>),
      Syscall("", "Trap", <<>>, <<>>),
      Syscall("getpid", "Invalid", <<>>, <<>>) }

\* the syscall entries with 1..MaxArgs conditions, and two whose condition has
\* an operator outside the enum or an index that is no syscall argument
ArgCalls ==
    { Syscall("openat", "Trap", <<>>, a) : a \in SeqsFromTo(ArgPool, 1, MaxArgs) }
    \cup { Syscall("openat", "Trap", <<>>, <<Arg(0, "Invalid", 1, 0)>>),
           Syscall("openat", "Trap", <<>>, <<Arg(syscallMaxArguments, "EqualTo", 1, 0)>>) }

\* an entry whose name the kernel does not know, to fill long policies
FillerCall == Syscall("newcall", "Trap", <<>>, <<>>)

KeptCall == Syscall("getpid", "Trap", <<>>, <<>>)

\* policies around the length at which the binary tree is asked for
LongLists ==
    { pre \o [i \in 1..k |-> FillerCall] :
        pre \in {<<>>, <<KeptCall>>}, k \in {optimizeOver - 1, optimizeOver} }

\* config.Syscalls of the policies under check
SyscallLists ==
    SeqsUpTo(SimpleCalls, MaxCalls) \cup { <<c>> : c \in ArgCalls } \cup LongLists

\* config.Architectures of the policies under check
ArchLists == { <<>>, <<"arm", "amd64">>, <<"amd64", "mips128">> }

\* config.Flags of the policies under check; flagTsync, LinuxSeccompFlagLog,
\* LinuxSeccompFlagSpecAllow and a flag runc does not know
FlagLists ==
    { <<>>,
      <<"SECCOMP_FILTER_FLAG_TSYNC", "SECCOMP_FILTER_FLAG_SPEC_ALLOW", "SECCOMP_FILTER_FLAG_LOG">>,
      <<"SECCOMP_FILTER_FLAG_LOG", "SECCOMP_FILTER_FLAG_WAIT_KILLABLE_RECV", "SECCOMP_FILTER_FLAG_SPEC_ALLOW">> }

\* config.DefaultAction with config.DefaultErrnoRet
DefaultActions == { <<"Allow", <<>> >>, <<"Errno", <<>> >>, <<"Notify", <<>> >>, <<"Invalid", <<>> >> }

\* the nil *configs.Seccomp
NilConfig ==
    [nil |-> TRUE, DefaultAction |-> "Invalid", DefaultErrnoRet |-> <<>>,
     Architectures |-> <<>>, Flags |-> <<>>, Syscalls |-> <<>>]

Configs ==
    { [nil |-> FALSE, DefaultAction |-> d[1], DefaultErrnoRet |-> d[2],
       Architectures |-> a, Flags |-> f, Syscalls |-> s] :
        d \in DefaultActions, a \in ArchLists, f \in FlagLists, s \in SyscallLists }
    \cup {NilConfig}

\* the API levels libseccomp.GetAPI reports
ApiLevels == { minNotifyAPI - 1, minNotifyAPI }

(***************************************************************************)
(* The errors InitSeccomp returns.                                         *)
(***************************************************************************)
ErrNilConfig == "cannot initialize Seccomp - nil config passed"

ErrInvalidDefault == "error initializing seccomp - invalid default action"

ErrNotifyAPI == "seccomp notify unsupported: API level: got %d, want at least 6"

ErrNotifyWrite == "SCMP_ACT_NOTIFY cannot be used for the write syscall"

ErrNotifyDefault == "SCMP_ACT_NOTIFY cannot be used as default action"

ErrNilSyscall == "encountered nil syscall while initializing Seccomp"

ErrUnknownFlag == "seccomp flag is not known to runc"

NoError == ""

\* one library call on the filter, as recorded in ops
Op(name, arg) == [op |-> name, arg |-> arg]

(***************************************************************************)
(* matchCall: the rules one syscall entry adds to the filter.              *)
(***************************************************************************)
ErrNilMatch == "cannot use nil as syscall to block"

ErrEmptyName == "empty string is not a valid syscall"

ErrInvalidAction == "action in seccomp profile is invalid"

ErrCondition == "error creating seccomp syscall condition for syscall"

ErrAddRule == "error adding seccomp filter rule for syscall"

ErrAddRuleConditional == "error adding seccomp rule for syscall"

\* the first loop of the conditional branch: the index of the first condition
\* getCondition refuses, 0 when it converts them all
firstBadCondition(args) ==
    IF \E i \in 1..Len(args) : getCondition(args[i]).err
    THEN CHOOSE i \in 1..Len(args) :
            /\ getCondition(args[i]).err
            /\ \A j \in 1..(i - 1) : ~getCondition(args[j]).err
    ELSE 0

\* conditions, in the order of call.Args
conditionsOf(args) == [i \in 1..Len(args) |-> getCondition(args[i]).c]

\* argCounts[k]: how many conditions are on argument k
argCounts(args) ==
    [k \in 0..(syscallMaxArguments - 1) |->
        Cardinality({i \in 1..Len(args) : args[i].Index = k})]

\* hasMultipleArgs with the count compared one too high
hasMultipleArgs_offByOne(args) ==
    \E k \in 0..(syscallMaxArguments - 1) : argCounts(args)[k] > 2

\* hasMultipleArgs: some argument carries two or more conditions
hasMultipleArgs(args) ==
    \E k \in 0..(syscallMaxArguments - 1) : argCounts(args)[k] > 1

\* isRedundant with the test left out: no rule is ever skipped
isRedundant_never(callAct, defAct) == FALSE

\* the rule is redundant when its action is the filter's default action
isRedundant(callAct, defAct) == callAct = defAct

\* separateRules with the conditions kept in a map, whose iteration order
\* differs from one compilation to the next
separateRules_mapOrder(callNum, callAct, conds) ==
    [i \in 1..Len(conds) |->
        Op("AddRuleConditional",
           <<callNum, callAct, <<conds[IF run = 1 THEN i ELSE Len(conds) + 1 - i]>> >>)]

\* the branch in which each condition gets a rule of its own
separateRules(callNum, callAct, conds) ==
    [i \in 1..Len(conds) |-> Op("AddRuleConditional", <<callNum, callAct, <<conds[i]>> >>)]

\* the branch in which one rule carries every condition
jointRule(callNum, callAct, conds) ==
    <<Op("AddRuleConditional", <<callNum, callAct, conds>>)>>

\* matchCall(filter, call, defAct): the error it returns before any library
\* call (err), the library calls it then makes in order (plan), and the error
\* it returns when one of them fails (libErr)
matchCall(call, defAct) ==
    LET callAct == getAction(call.Action, call.ErrnoRet)
        callNum == GetSyscallFromName(call.Name)
        none == [plan |-> <<>>, err |-> NoError, libErr |-> NoError]
    IN  IF call.nil THEN [none EXCEPT !.err = ErrNilMatch]
        ELSE IF call.Name = "" THEN [none EXCEPT !.err = ErrEmptyName]
        ELSE IF callAct.err THEN [none EXCEPT !.err = ErrInvalidAction]
        ELSE IF isRedundant(callAct.a, defAct) THEN none
        ELSE IF callNum.err THEN none
        ELSE IF Len(call.Args) = 0
             THEN [plan |-> <<Op("AddRule", <<callNum.num, callAct.a>>)>>,
                   err |-> NoError, libErr |-> ErrAddRule]
        ELSE IF firstBadCondition(call.Args) # 0 THEN [none EXCEPT !.err = ErrCondition]
        ELSE IF hasMultipleArgs(call.Args)
             THEN [plan |-> separateRules(callNum.num, callAct.a, conditionsOf(call.Args)),
                   err |-> NoError, libErr |-> ErrAddRuleConditional]
             ELSE [plan |-> jointRule(callNum.num, callAct.a, conditionsOf(call.Args)),
                   err |-> NoError, libErr |-> ErrAddRuleConditional]

(***************************************************************************)
(* setFlag: the library call one filter flag makes.                        *)
(***************************************************************************)
flagTsync == "SECCOMP_FILTER_FLAG_TSYNC"

LinuxSeccompFlagLog == "SECCOMP_FILTER_FLAG_LOG"

LinuxSeccompFlagSpecAllow == "SECCOMP_FILTER_FLAG_SPEC_ALLOW"

ErrSetLogBit == "error adding log flag to seccomp filter"

ErrSetSSB == "error adding SSB flag to seccomp filter"

\* setFlag(filter, flag): err, plan and libErr as for matchCall
setFlag(flag) ==
    CASE flag = flagTsync -> [plan |-> <<>>, err |-> NoError, libErr |-> NoError]
      [] flag = LinuxSeccompFlagLog ->
            [plan |-> <<Op("SetLogBit", <<TRUE>>)>>, err |-> NoError, libErr |-> ErrSetLogBit]
      [] flag = LinuxSeccompFlagSpecAllow ->
            [plan |-> <<Op("SetSSB", <<TRUE>>)>>, err |-> NoError, libErr |-> ErrSetSSB]
      [] OTHER -> [plan |-> <<>>, err |-> ErrUnknownFlag, libErr |-> NoError]

(***************************************************************************)
(* InitSeccomp, one action per step of the function.                       *)
(***************************************************************************)
ErrNewFilter == "error creating filter"

ErrArch == "error validating Seccomp architecture"

ErrAddArch == "error adding architecture to seccomp filter"

ErrNoNewPrivs == "error setting no new privileges"

ErrLoad == "error loading seccomp filter into kernel"

\* defaultAction, err := getAction(config.DefaultAction, config.DefaultErrnoRet)
defaultAction == getAction(config.DefaultAction, config.DefaultErrnoRet).a

\* wantsOptimize with >= in place of >
wantsOptimize_atThreshold(cfg) == Len(cfg.Syscalls) >= optimizeOver

\* len(config.Syscalls) > 32
wantsOptimize(cfg) == Len(cfg.Syscalls) > optimizeOver

\* where the run goes once entry i of the notify validation loop is reached
afterValidate(i) ==
    IF i <= Len(config.Syscalls) THEN <<"validate", i>> ELSE <<"checkDefault", 0>>

\* where the run goes once flag i is reached
afterFlag(i) == IF i <= Len(config.Flags) THEN <<"setFlag", i>> ELSE <<"optimize", 0>>

\* afterArch with the flag loop left out: the flags of the policy are never set
afterArch_flagsLate(i) ==
    IF i <= Len(config.Architectures) THEN <<"addArch", i>> ELSE <<"optimize", 0>>

\* where the run goes once architecture i is reached
afterArch(i) ==
    IF i <= Len(config.Architectures) THEN <<"addArch", i>> ELSE afterFlag(1)

\* where the run goes once entry i of the rule loop is reached
afterRule(i) == IF i <= Len(config.Syscalls) THEN <<"rules", i>> ELSE <<"load", 0>>

\* The library may fail any call. Of n calls about to be issued, the number of
\* the first that fails, 0 when none does: any in a first compilation; in the
\* second compilation the library answers as it did in the first.
FailChoices(n) ==
    IF run = 1 THEN 0..n
    ELSE LET bad == {j \in 1..n : Len(ops) + j \in prev.failed}
         IN  IF bad = {} THEN {0} ELSE {CHOOSE j \in bad : \A i \in bad : j <= i}

\* the run moves on to position p, having issued the library calls o
Goto(p, o) ==
    /\ pc' = p[1]
    /\ idx' = p[2]
    /\ ops' = ops \o o
    /\ UNCHANGED <<result, fd>>

\* return nil, err, having issued the library calls o
Return(err, o) ==
    /\ pc' = "done"
    /\ idx' = 0
    /\ ops' = ops \o o
    /\ result' = err
    /\ fd' = "nil"

\* the run dereferences a nil pointer: the Go runtime panics
Panic ==
    /\ pc' = "done"
    /\ idx' = 0
    /\ ops' = ops
    /\ result' = "panic"
    /\ fd' = "nil"

\* the library calls of plan are issued in order; the first that fails ends the
\* run with libErr, otherwise the run moves on to position p
Issue(plan, libErr, p) ==
    \E k \in FailChoices(Len(plan)) :
        IF k = 0
        THEN Goto(p, plan) /\ failed' = failed
        ELSE Return(libErr, SubSeq(plan, 1, k)) /\ failed' = failed \cup {Len(ops) + k}

Frame == UNCHANGED <<config, apiLevel, run, prev, proc, last>>

\* lines 34-44: the nil check, the default action, the API level
Start ==
    /\ pc = "start"
    /\ IF config.nil THEN Return(ErrNilConfig, <<>>)
       ELSE IF getAction(config.DefaultAction, config.DefaultErrnoRet).err
            THEN Return(ErrInvalidDefault, <<>>)
            ELSE Goto(afterValidate(1), <<>>)
    /\ failed' = failed
    /\ Frame

\* lines 45-67: one turn of the loop that validates the notify rules
ValidateCall ==
    /\ pc = "validate"
    /\ LET call == config.Syscalls[idx]
       IN  IF call.nil THEN Panic
           ELSE IF call.Action = "Notify"
                THEN IF apiLevel < minNotifyAPI THEN Return(ErrNotifyAPI, <<>>)
                     ELSE IF call.Name = "write" THEN Return(ErrNotifyWrite, <<>>)
                     ELSE Goto(afterValidate(idx + 1), <<>>)
                ELSE Goto(afterValidate(idx + 1), <<>>)
    /\ failed' = failed
    /\ Frame

\* lines 69-72: notify is refused as the default action
CheckDefaultNotify ==
    /\ pc = "checkDefault"
    /\ IF defaultAction = Plain("ActNotify")
       THEN Return(ErrNotifyDefault, <<>>)
       ELSE Goto(<<"newFilter", 0>>, <<>>)
    /\ failed' = failed
    /\ Frame

\* lines 74-77: the filter is created
NewFilter ==
    /\ pc = "newFilter"
    /\ Issue(<<Op("NewFilter", <<defaultAction>>)>>, ErrNewFilter, afterArch(1))
    /\ Frame

\* lines 80-88: one turn of the architecture loop
AddArch ==
    /\ pc = "addArch"
    /\ LET arch == config.Architectures[idx]
       IN  IF arch \notin KnownArchs
           THEN Return(ErrArch, <<>>) /\ failed' = failed
           ELSE Issue(<<Op("AddArch", <<arch>>)>>, ErrAddArch, afterArch(idx + 1))
    /\ Frame

\* lines 91-95: one turn of the flag loop
SetFlag ==
    /\ pc = "setFlag"
    /\ LET f == setFlag(config.Flags[idx])
       IN  IF f.err # NoError
           THEN Return(f.err, <<>>) /\ failed' = failed
           ELSE Issue(f.plan, f.libErr, afterFlag(idx + 1))
    /\ Frame

\* lines 104-109: the binary tree is asked for; a failure is only logged
SetOptimize ==
    /\ pc = "optimize"
    /\ IF wantsOptimize(config)
       THEN \E k \in FailChoices(1) :
               /\ Goto(<<"noNewPrivs", 0>>, <<Op("SetOptimize", <<optimizeLevel>>)>>)
               /\ failed' = IF k = 0 THEN failed ELSE failed \cup {Len(ops) + 1}
       ELSE Goto(<<"noNewPrivs", 0>>, <<>>) /\ failed' = failed
    /\ Frame

\* lines 112-114: the filter's no-new-privileges bit is unset
SetNoNewPrivsBit ==
    /\ pc = "noNewPrivs"
    /\ Issue(<<Op("SetNoNewPrivsBit", <<FALSE>>)>>, ErrNoNewPrivs, afterRule(1))
    /\ Frame

\* lines 117-125: one turn of the rule loop
AddRules ==
    /\ pc = "rules"
    /\ LET call == config.Syscalls[idx]
           m == matchCall(call, defaultAction)
       IN  IF call.nil
           THEN Return(ErrNilSyscall, <<>>) /\ failed' = failed
           ELSE IF m.err # NoError
                THEN Return(m.err, <<>>) /\ failed' = failed
                ELSE Issue(m.plan, m.libErr, afterRule(idx + 1))
    /\ Frame

\* lines 127-131: the filter is patched and loaded into the kernel
PatchAndLoad ==
    /\ pc = "load"
    /\ \E k \in FailChoices(1) :
          IF k = 0
          THEN /\ pc' = "done"
               /\ idx' = 0
               /\ ops' = Append(ops, Op("PatchAndLoad", <<>>))
               /\ failed' = failed
               /\ result' = "ok"
               /\ fd' = "seccompFd"
          ELSE /\ Return(ErrLoad, <<Op("PatchAndLoad", <<>>)>>)
               /\ failed' = failed \cup {Len(ops) + 1}
    /\ Frame

\* the outcome of a compilation
Outcome == [ops |-> ops, failed |-> failed, result |-> result, fd |-> fd]

NoOutcome == [ops |-> <<>>, failed |-> {}, result |-> "running", fd |-> "nil"]

\* the same policy is compiled a second time, against the same library
Recompile ==
    /\ pc = "done"
    /\ run = 1
    /\ run' = 2
    /\ prev' = Outcome
    /\ pc' = "start"
    /\ idx' = 0
    /\ ops' = <<>>
    /\ failed' = {}
    /\ result' = "running"
    /\ fd' = "nil"
    /\ UNCHANGED <<config, apiLevel, proc, last>>

(***************************************************************************)
(* restored_process.go: restoredProcess and nonChildProcess.               *)
(***************************************************************************)
\* most external descriptors of a process
MaxFds == 2

\* pids and start times (uint64, from /proc/<pid>/stat) of the processes
Pids == {7, 4242}

StartTimes == {0, 8125, 2147483647}

FdNames == {"/dev/null", "pipe:[5150]"}

FdLists == SeqsUpTo(FdNames, MaxFds)

\* no process handle yet
NoProc ==
    [kind |-> "none", pid |-> 0, processStartTime |-> 0, fds |-> <<>>, ProcessState |-> "nil"]

\* no method called yet
NoCall == [op |-> "none", err |-> NoError, val |-> <<>>, before |-> NoProc, waited |-> FALSE]

\* a method of proc returns err and val; before is the handle as the call found it
Called(op, err, val, waited) ==
    last' = [op |-> op, err |-> err, val |-> val, before |-> proc, waited |-> waited]

ErrStat == "stat: no such process"

ErrCannotStart == "restored process cannot be started"

ErrCannotTerminate == "restored process cannot be terminated"

ErrCannotWait == "restored process cannot be waited on"

ErrProcessDone == "os: process already finished"

ErrPermission == "operation not permitted"

ErrWaitCalled == "exec: Wait was already called"

ErrNoChild == "wait: no child processes"

ErrCopy == "exec: error copying the output of the process"

ExitError == "exec.ExitError"

\* what os.Process.Signal and os.Process.Kill can return for the process of a
\* handle: a process already waited on is done; a signal can be refused
SignalErrors(p) ==
    IF p.kind = "restored" /\ p.ProcessState # "nil"
    THEN {ErrProcessDone}
    ELSE {NoError, ErrPermission}

\* what exec.Cmd.Wait can do: the error it returns and the ProcessState it
\* leaves in cmd. A second Wait is refused; the process exits with status 0,
\* with another status or by a signal; the wait syscall or the output copy fails.
CmdWaits(p) ==
    IF p.ProcessState # "nil"
    THEN {[err |-> ErrWaitCalled, state |-> p.ProcessState]}
    ELSE {[err |-> NoError, state |-> "exit0"],
          [err |-> ExitError, state |-> "exit1"],
          [err |-> ExitError, state |-> "signaled"],
          [err |-> ErrCopy, state |-> "exit0"],
          [err |-> ErrNoChild, state |-> "nil"]}

\* restoredProcess.wait given what cmd.Wait did: the state and error returned
restoredWait(w) ==
    IF w.err # NoError /\ w.err # ExitError
    THEN [st |-> "nil", err |-> w.err]
    ELSE [st |-> w.state, err |-> NoError]

\* restoredTerminate returning at once when Kill fails
restoredTerminate_earlyReturn(killErr, w) ==
    IF killErr # NoError
    THEN [waited |-> FALSE, err |-> killErr]
    ELSE [waited |-> TRUE, err |-> restoredWait(w).err]

\* restoredProcess.terminate given what Kill returned and what cmd.Wait did:
\* whether wait was called, and the error returned
restoredTerminate(killErr, w) ==
    [waited |-> TRUE,
     err |-> IF killErr = NoError THEN restoredWait(w).err ELSE killErr]

ProcFrame == UNCHANGED <<config, apiLevel, pc, idx, ops, failed, result, fd, run, prev>>

\* newRestoredProcess(cmd, fds): the start time is read with system.Stat
newRestoredProcess ==
    /\ proc.kind = "none"
    /\ \E pid \in Pids, fds \in FdLists :
          \/ /\ proc' = proc
             /\ Called("newRestoredProcess", ErrStat, <<>>, FALSE)
          \/ \E t \in StartTimes :
                /\ proc' = [kind |-> "restored", pid |-> pid, processStartTime |-> t,
                            fds |-> fds, ProcessState |-> "nil"]
                /\ Called("newRestoredProcess", NoError, <<>>, FALSE)
    /\ ProcFrame

\* &nonChildProcess{processPid: ..., processStartTime: ..., fds: ...}
newNonChildProcess ==
    /\ proc.kind = "none"
    /\ \E pid \in Pids, t \in StartTimes, fds \in FdLists :
          proc' = [kind |-> "nonChild", pid |-> pid, processStartTime |-> t,
                   fds |-> fds, ProcessState |-> "nil"]
    /\ Called("newNonChildProcess", NoError, <<>>, FALSE)
    /\ ProcFrame

restoredStart ==
    /\ proc.kind = "restored"
    /\ Called("start", ErrCannotStart, <<>>, FALSE)
    /\ proc' = proc
    /\ ProcFrame

restoredPid ==
    /\ proc.kind = "restored"
    /\ Called("pid", NoError, <<proc.pid>>, FALSE)
    /\ proc' = proc
    /\ ProcFrame

restoredTerminateCall ==
    /\ proc.kind = "restored"
    /\ \E killErr \in SignalErrors(proc), w \in CmdWaits(proc) :
          LET t == restoredTerminate(killErr, w)
          IN  /\ Called("terminate", t.err, <<killErr, w.err>>, t.waited)
              /\ proc' = IF t.waited THEN [proc EXCEPT !.ProcessState = w.state] ELSE proc
    /\ ProcFrame

restoredWaitCall ==
    /\ proc.kind = "restored"
    /\ \E w \in CmdWaits(proc) :
          /\ Called("wait", restoredWait(w).err, <<restoredWait(w).st, w.err>>, TRUE)
          /\ proc' = [proc EXCEPT !.ProcessState = w.state]
    /\ ProcFrame

\* restoredProcess.startTime reading the start time again from /proc/<pid>/stat
restoredStartTime_rereadsStat ==
    /\ proc.kind = "restored"
    /\ \E t \in StartTimes : Called("startTime", NoError, <<t>>, FALSE)
    /\ proc' = proc
    /\ ProcFrame

restoredStartTime ==
    /\ proc.kind = "restored"
    /\ Called("startTime", NoError, <<proc.processStartTime>>, FALSE)
    /\ proc' = proc
    /\ ProcFrame

restoredSignal ==
    /\ proc.kind = "restored"
    /\ \E e \in SignalErrors(proc) : Called("signal", e, <<>>, FALSE)
    /\ proc' = proc
    /\ ProcFrame

restoredExternalDescriptors ==
    /\ proc.kind = "restored"
    /\ Called("externalDescriptors", NoError, <<proc.fds>>, FALSE)
    /\ proc' = proc
    /\ ProcFrame

restoredSetExternalDescriptors ==
    /\ proc.kind = "restored"
    /\ \E newFds \in FdLists :
          /\ proc' = [proc EXCEPT !.fds = newFds]
          /\ Called("setExternalDescriptors", NoError, <<newFds>>, FALSE)
    /\ ProcFrame

nonChildStart ==
    /\ proc.kind = "nonChild"
    /\ Called("start", ErrCannotStart, <<>>, FALSE)
    /\ proc' = proc
    /\ ProcFrame

nonChildPid ==
    /\ proc.kind = "nonChild"
    /\ Called("pid", NoError, <<proc.pid>>, FALSE)
    /\ proc' = proc
    /\ ProcFrame

nonChildTerminate ==
    /\ proc.kind = "nonChild"
    /\ Called("terminate", ErrCannotTerminate, <<>>, FALSE)
    /\ proc' = proc
    /\ ProcFrame

\* nonChildProcess.wait returning nil, nil
nonChildWait_noError ==
    /\ proc.kind = "nonChild"
    /\ Called("wait", NoError, <<"nil">>, FALSE)
    /\ proc' = proc
    /\ ProcFrame

nonChildWait ==
    /\ proc.kind = "nonChild"
    /\ Called("wait", ErrCannotWait, <<"nil">>, FALSE)
    /\ proc' = proc
    /\ ProcFrame

nonChildStartTime ==
    /\ proc.kind = "nonChild"
    /\ Called("startTime", NoError, <<proc.processStartTime>>, FALSE)
    /\ proc' = proc
    /\ ProcFrame

nonChildSignal ==
    /\ proc.kind = "nonChild"
    /\ \E e \in SignalErrors(proc) : Called("signal", e, <<>>, FALSE)
    /\ proc' = proc
    /\ ProcFrame

nonChildExternalDescriptors ==
    /\ proc.kind = "nonChild"
    /\ Called("externalDescriptors", NoError, <<proc.fds>>, FALSE)
    /\ proc' = proc
    /\ ProcFrame

nonChildSetExternalDescriptors ==
    /\ proc.kind = "nonChild"
    /\ \E newFds \in FdLists :
          /\ proc' = [proc EXCEPT !.fds = newFds]
          /\ Called("setExternalDescriptors", NoError, <<newFds>>, FALSE)
    /\ ProcFrame

Init ==
    /\ config \in Configs
    /\ apiLevel \in ApiLevels
    /\ pc = "start"
    /\ idx = 0
    /\ ops = <<>>
    /\ failed = {}
    /\ result = "running"
    /\ fd = "nil"
    /\ run = 1
    /\ prev = NoOutcome
    /\ proc = NoProc
    /\ last = NoCall

InitSeccomp ==
    \/ Start
    \/ ValidateCall
    \/ CheckDefaultNotify
    \/ NewFilter
    \/ AddArch
    \/ SetFlag
    \/ SetOptimize
    \/ SetNoNewPrivsBit
    \/ AddRules
    \/ PatchAndLoad

Next == InitSeccomp

Spec == Init /\ [][Next]_vars

NextTwice == InitSeccomp \/ Recompile

SpecTwice == Init /\ [][NextTwice]_vars

\* the process handles alone: no compilation runs
InitProc ==
    /\ config = NilConfig
    /\ apiLevel = minNotifyAPI
    /\ pc = "done"
    /\ idx = 0
    /\ ops = <<>>
    /\ failed = {}
    /\ result = "running"
    /\ fd = "nil"
    /\ run = 1
    /\ prev = NoOutcome
    /\ proc = NoProc
    /\ last = NoCall

NextProc ==
    \/ newRestoredProcess
    \/ newNonChildProcess
    \/ restoredStart
    \/ restoredPid
    \/ restoredTerminateCall
    \/ restoredWaitCall
    \/ restoredStartTime
    \/ restoredSignal
    \/ restoredExternalDescriptors
    \/ restoredSetExternalDescriptors
    \/ nonChildStart
    \/ nonChildPid
    \/ nonChildTerminate
    \/ nonChildWait
    \/ nonChildStartTime
    \/ nonChildSignal
    \/ nonChildExternalDescriptors
    \/ nonChildSetExternalDescriptors

SpecProc == InitProc /\ [][NextProc]_vars

(***************************************************************************)
(* The claims.                                                             *)
(***************************************************************************)
\* the policy is not nil and its default action converts
ValidDefault == ~config.nil /\ ~getAction(config.DefaultAction, config.DefaultErrnoRet).err

\* r is an error InitSeccomp returned
IsError(r) == r \notin {"running", "ok", "panic"}

\* the run issued a library call named n
Issued(n) == \E i \in 1..Len(ops) : ops[i].op = n

HasNilEntry == \E i \in 1..Len(config.Syscalls) : config.Syscalls[i].nil

HasNotifyRule ==
    \E i \in 1..Len(config.Syscalls) :
        ~config.Syscalls[i].nil /\ config.Syscalls[i].Action = "Notify"

HasWriteNotifyRule ==
    \E i \in 1..Len(config.Syscalls) :
        /\ ~config.Syscalls[i].nil
        /\ config.Syscalls[i].Action = "Notify"
        /\ config.Syscalls[i].Name = "write"

\* C1: a policy with a valid default action that has a notify rule on "write",
\* or notify as default action, makes InitSeccomp return an error and a nil
\* file descriptor, with no library call on any filter before it.
C1_NotifyWriteRejected ==
    (ValidDefault /\ (HasWriteNotifyRule \/ config.DefaultAction = "Notify"))
        => /\ ops = <<>>
           /\ pc = "done" => (IsError(result) /\ fd = "nil")

\* C2: a policy with a valid default action and a notify rule fails with the
\* version error, and no library call, when the API level is below 6, also
\* when the notify rule names "write"; at level 6 or more the version error is
\* never returned.
C2_NotifyNeedsAPI6 ==
    (ValidDefault /\ HasNotifyRule)
        => /\ apiLevel < minNotifyAPI =>
                (ops = <<>> /\ (pc = "done" => result = ErrNotifyAPI))
           /\ apiLevel >= minNotifyAPI => result # ErrNotifyAPI

\* C10: a policy with a nil syscall entry makes InitSeccomp return the error
\* "encountered nil syscall while initializing Seccomp" and a nil file
\* descriptor without loading a filter, and the run never panics.
C10_NilSyscallIsAnError ==
    (ValidDefault /\ HasNilEntry)
        => /\ result # "panic"
           /\ ~Issued("PatchAndLoad")
           /\ pc = "done" => (result = ErrNilSyscall /\ fd = "nil")

(***************************************************************************)
(* What the claims expect of the rule loop, stated from the policy alone.  *)
(***************************************************************************)
\* the syscall entry the rule loop is at
Cur == config.Syscalls[idx]

\* the library calls the step being taken issues
Added == SubSeq(ops', Len(ops) + 1, Len(ops'))

\* s is a prefix of t
IsPrefix(s, t) == Len(s) <= Len(t) /\ s = SubSeq(t, 1, Len(s))

\* the action of the entry is one of the enum
ValidAction(call) == call.Action \in Actions \ {"Invalid"}

\* the entry is kept: its action differs from the default and its name resolves
Kept(call) ==
    /\ ~call.nil
    /\ ValidAction(call)
    /\ getAction(call.Action, call.ErrnoRet).a # defaultAction
    /\ call.Name \in DOMAIN SyscallTable

\* every condition of the entry converts: no nil pointer, an operator of the
\* enum, an index that is a syscall argument
Converts(call) ==
    \A i \in 1..Len(call.Args) :
        /\ ~call.Args[i].nil
        /\ call.Args[i].Op \in Operators \ {"Invalid"}
        /\ call.Args[i].Index < syscallMaxArguments

\* no two conditions of the entry are on the same argument
DistinctIndices(call) ==
    \A i, j \in 1..Len(call.Args) : i # j => call.Args[i].Index # call.Args[j].Index

\* condition i of the entry, converted
Cond(call, i) ==
    [Argument |-> call.Args[i].Index, Op |-> getOperator(call.Args[i].Op).o,
     Operand1 |-> call.Args[i].Value, Operand2 |-> call.Args[i].ValueTwo]

\* the rules a kept entry adds: one unconditional rule, one rule with all the
\* conditions (AND), or one rule for each condition, in order (OR)
ExpectedRules(call) ==
    LET num == SyscallTable[call.Name]
        act == getAction(call.Action, call.ErrnoRet).a
        n == Len(call.Args)
    IN  IF n = 0 THEN <<Op("AddRule", <<num, act>>)>>
        ELSE IF DistinctIndices(call)
             THEN <<Op("AddRuleConditional", <<num, act, [i \in 1..n |-> Cond(call, i)]>>)>>
             ELSE [i \in 1..n |-> Op("AddRuleConditional", <<num, act, <<Cond(call, i)>> >>)]

\* the rules entries 1..i of the policy add when none is in error
RECURSIVE ExpectedUpTo(_)
ExpectedUpTo(i) ==
    IF i = 0 THEN <<>>
    ELSE ExpectedUpTo(i - 1)
            \o (IF Kept(config.Syscalls[i]) THEN ExpectedRules(config.Syscalls[i]) ELSE <<>>)

RuleOpNames == {"AddRule", "AddRuleConditional"}

IsRuleOp(o) == o.op \in RuleOpNames

\* the rule-adding calls issued so far, in order
RuleOps == SelectSeq(ops, IsRuleOp)

\* C3: a kept syscall entry with n conditions adds one unconditional rule when
\* n = 0, one rule carrying all n conditions when they are on distinct
\* arguments, and otherwise one single-condition rule for each of the n
\* conditions, in policy order. (A condition that does not convert adds no
\* rule and is an error; a call the library refuses ends the run there.)
C3_ArgumentConditions ==
    [][(pc = "rules" /\ Kept(Cur)) =>
          IF Converts(Cur)
          THEN /\ IsPrefix(Added, ExpectedRules(Cur))
               /\ result' \in {"running", ErrAddRule, ErrAddRuleConditional}
               /\ result' = "running" <=> failed' = failed
               /\ result' = "running" => Added = ExpectedRules(Cur)
          ELSE Added = <<>> /\ result' = ErrCondition]_vars

\* C3 witness: the one entry of a policy has conditions on arguments 0, 1 and
\* 0 again, and three single-condition rules were added before the load
C3_MixedCaseAdded ==
    /\ pc = "load"
    /\ Len(config.Syscalls) = 1
    /\ Kept(config.Syscalls[1])
    /\ Len(config.Syscalls[1].Args) = 3
    /\ config.Syscalls[1].Args[1].Index = 0
    /\ config.Syscalls[1].Args[2].Index = 1
    /\ config.Syscalls[1].Args[3].Index = 0
    /\ Len(RuleOps) = 3
    /\ \A i \in 1..3 : Len(RuleOps[i].arg[3]) = 1

\* C4: an entry with a non-empty name and a valid action adds rules exactly
\* when its converted action differs from the converted default action and its
\* name resolves; an entry that is dropped adds nothing, is no error and lets
\* the loop go on to the next entry. (A kept entry adds nothing only when one
\* of its conditions does not convert, which is an error.)
C4_DroppedOrKept ==
    [][(pc = "rules" /\ ~Cur.nil /\ Cur.Name # "" /\ ValidAction(Cur)) =>
          IF Kept(Cur)
          THEN /\ result' = "running" => Added # <<>>
               /\ Added = <<>> => result' = ErrCondition
          ELSE /\ Added = <<>>
               /\ result' = "running"
               /\ <<pc', idx'>> = IF idx < Len(config.Syscalls)
                                  THEN <<"rules", idx + 1>>
                                  ELSE <<"load", 0>>]_vars

\* C4 witness: under the default errno(EPERM) an entry errno with an explicit
\* EPERM was dropped and the entry after it was added and loaded
C4_DroppedThenKept ==
    /\ result = "ok"
    /\ config.DefaultAction = "Errno"
    /\ Len(config.Syscalls) = 2
    /\ ~config.Syscalls[1].nil
    /\ config.Syscalls[1].Action = "Errno"
    /\ config.Syscalls[1].ErrnoRet # config.DefaultErrnoRet
    /\ Kept(config.Syscalls[2])
    /\ Len(RuleOps) = 1

(***************************************************************************)
(* The order of the filter operations.                                      *)
(***************************************************************************)
\* the stage of InitSeccomp a library call belongs to
Stage(o) ==
    CASE o.op = "NewFilter" -> 0
      [] o.op = "AddArch" -> 1
      [] o.op \in {"SetLogBit", "SetSSB"} -> 2
      [] o.op = "SetOptimize" -> 3
      [] o.op = "SetNoNewPrivsBit" -> 4
      [] o.op \in RuleOpNames -> 5
      [] o.op = "PatchAndLoad" -> 6

IsArchOp(o) == o.op = "AddArch"

IsFlagOp(o) == o.op \in {"SetLogBit", "SetSSB"}

IsLoadOp(o) == o.op = "PatchAndLoad"

\* the architectures added so far, in order
ArchsAdded == [i \in 1..Len(SelectSeq(ops, IsArchOp)) |-> SelectSeq(ops, IsArchOp)[i].arg[1]]

\* the library call each flag of the enum stands for; thread-sync stands for none
RECURSIVE FlagCalls(_)
FlagCalls(flags) ==
    IF flags = <<>> THEN <<>>
    ELSE (CASE Head(flags) = "SECCOMP_FILTER_FLAG_LOG" -> <<"SetLogBit">>
            [] Head(flags) = "SECCOMP_FILTER_FLAG_SPEC_ALLOW" -> <<"SetSSB">>
            [] OTHER -> <<>>)
         \o FlagCalls(Tail(flags))

\* the flag calls issued so far, in order
FlagsSet == [i \in 1..Len(SelectSeq(ops, IsFlagOp)) |-> SelectSeq(ops, IsFlagOp)[i].op]

KnownFlags ==
    {"SECCOMP_FILTER_FLAG_TSYNC", "SECCOMP_FILTER_FLAG_LOG", "SECCOMP_FILTER_FLAG_SPEC_ALLOW"}

HasUnknownFlag == \E i \in 1..Len(config.Flags) : config.Flags[i] \notin KnownFlags

\* the positions in ops of the calls that may fail without ending the run
OptimizePositions == {i \in 1..Len(ops) : ops[i].op = "SetOptimize"}

\* C5: the filter operations come in the order new filter, architectures in
\* policy order, flags in policy order, (optimization,) no-new-privileges bit,
\* rules in policy order, one load. A rule is added only after every flag is
\* set; a flag runc does not know is an error with no rule added and nothing
\* loaded; the filter is loaded only if every step before it succeeded.
C5_FilterOperationOrder ==
    /\ \A i, j \in 1..Len(ops) : i < j => Stage(ops[i]) <= Stage(ops[j])
    /\ IsPrefix(ArchsAdded, config.Architectures)
    /\ IsPrefix(FlagsSet, FlagCalls(config.Flags))
    /\ IsPrefix(RuleOps, ExpectedUpTo(Len(config.Syscalls)))
    /\ Len(SelectSeq(ops, IsLoadOp)) <= 1
    /\ (\E i \in 1..Len(ops) : Stage(ops[i]) >= 2) => ArchsAdded = config.Architectures
    /\ (\E i \in 1..Len(ops) : Stage(ops[i]) >= 4) =>
            (FlagsSet = FlagCalls(config.Flags) /\ ~HasUnknownFlag)
    /\ RuleOps # <<>> =>
            (Issued("SetNoNewPrivsBit") /\ FlagsSet = FlagCalls(config.Flags))
    /\ HasUnknownFlag =>
            (RuleOps = <<>> /\ ~Issued("PatchAndLoad") /\ result # "ok")
    /\ result = ErrUnknownFlag => (HasUnknownFlag /\ fd = "nil")
    /\ Issued("PatchAndLoad") =>
            /\ ops[Len(ops)].op = "PatchAndLoad"
            /\ failed \subseteq (OptimizePositions \cup {Len(ops)})
            /\ ops[1].op = "NewFilter"
            /\ ArchsAdded = config.Architectures
            /\ FlagsSet = FlagCalls(config.Flags)
            /\ Issued("SetNoNewPrivsBit")
            /\ RuleOps = ExpectedUpTo(Len(config.Syscalls))
    /\ result = "ok" <=> (Issued("PatchAndLoad") /\ pc = "done" /\ Len(ops) \notin failed)

\* C5 witness: a policy with two architectures, three known flags and a kept
\* entry was loaded
C5_FullRunLoaded ==
    /\ result = "ok"
    /\ Len(config.Architectures) = 2
    /\ Len(config.Flags) = 3
    /\ Len(FlagsSet) = 2
    /\ Len(RuleOps) >= 1

\* the run is past the step that decides on the binary tree
PastOptimize == pc \in {"noNewPrivs", "rules", "load"} \/ Issued("SetNoNewPrivsBit")

OptimizeFailed == \E i \in failed : ops[i].op = "SetOptimize"

\* C6: the binary tree is asked for exactly when the policy has at least 33
\* syscall entries, and a refused request does not end the run: the rules are
\* still added and the filter is still loaded.
C6_OptimizeThreshold ==
    /\ PastOptimize => (Issued("SetOptimize") <=> Len(config.Syscalls) >= 33)
    /\ ~PastOptimize => ~Issued("SetOptimize")
    /\ Len(config.Syscalls) \in {0, 32} => ~Issued("SetOptimize")
    /\ OptimizeFailed => (PastOptimize /\ result \notin {"panic"})
    /\ (OptimizeFailed /\ pc = "done" /\ Cardinality(failed) = 1
            /\ \A i \in 1..Len(config.Syscalls) :
                    matchCall(config.Syscalls[i], defaultAction).err = NoError)
        => /\ result = "ok"
           /\ Issued("PatchAndLoad")
           /\ RuleOps = ExpectedUpTo(Len(config.Syscalls))

\* C6 witness: a policy of 33 entries, one of them kept, was loaded with its
\* rule although the request for the binary tree was refused
C6_LoadedAfterRefusal ==
    /\ Len(config.Syscalls) = 33
    /\ OptimizeFailed
    /\ result = "ok"
    /\ Len(RuleOps) = 1

Recorded(p) == <<p.pid, p.processStartTime, p.fds>>

\* C8: start, terminate and wait on a nonChildProcess, and start on a
\* restoredProcess, return an error on every call, whatever was called before,
\* and leave the recorded pid, start time and external descriptors as they
\* were.
C8_UnsupportedOperations ==
    /\ (last.before.kind = "nonChild" /\ last.op \in {"start", "terminate", "wait"})
            => /\ last.err # NoError
               /\ last.err \in {ErrCannotStart, ErrCannotTerminate, ErrCannotWait}
               /\ proc = last.before
               /\ Recorded(proc) = Recorded(last.before)
    /\ (last.before.kind = "nonChild" /\ last.op = "wait") => last.val = <<"nil">>
    /\ (last.before.kind = "restored" /\ last.op = "start")
            => /\ last.err = ErrCannotStart
               /\ proc = last.before

\* C8 witness: wait was refused on a nonChildProcess that holds as many
\* descriptors as the model allows
C8_WaitRefused ==
    /\ last.op = "wait"
    /\ last.before.kind = "nonChild"
    /\ last.err = ErrCannotWait
    /\ Len(proc.fds) = MaxFds

\* C9: restoredProcess.terminate always calls wait after the kill attempt,
\* also when the kill failed; it returns the kill error when the kill failed
\* and otherwise what wait returned. wait returns the process state and no
\* error when the process exited with a non-zero status or by a signal, and
\* returns an error only for the other failures of cmd.Wait.
C9_TerminateWaits ==
    /\ (last.before.kind = "restored" /\ last.op = "terminate")
            => /\ last.waited
               /\ last.val[1] # NoError => last.err = last.val[1]
               /\ last.val[1] = NoError =>
                    last.err = (IF last.val[2] \in {NoError, ExitError}
                                THEN NoError ELSE last.val[2])
               /\ last.before.ProcessState = "nil" =>
                    (proc.ProcessState = "nil" <=> last.val[2] = ErrNoChild)
    /\ (last.before.kind = "restored" /\ last.op = "wait")
            => /\ last.val[2] \in {NoError, ExitError} =>
                    (last.err = NoError /\ last.val[1] = proc.ProcessState)
               /\ last.val[2] \notin {NoError, ExitError} =>
                    (last.err = last.val[2] /\ last.val[1] = "nil")
               /\ last.val[2] = ExitError => proc.ProcessState \in {"exit1", "signaled"}

\* C9 witness: the kill was refused, the process was still waited on and
\* exited by a signal, and terminate returned the kill error
C9_KillFailedStillWaited ==
    /\ last.op = "terminate"
    /\ last.before.kind = "restored"
    /\ last.val[1] = ErrPermission
    /\ last.waited
    /\ proc.ProcessState = "signaled"
    /\ last.err = ErrPermission

\* the methods of a handle that C11 quantifies over, and the two readers
HandleMethods ==
    {"start", "terminate", "wait", "signal", "externalDescriptors",
     "setExternalDescriptors", "startTime", "pid"}

\* C11: the pid and the start time a handle (restoredProcess or
\* nonChildProcess) got at construction never change: every call of start,
\* terminate, wait, signal, externalDescriptors, setExternalDescriptors, pid
\* or startTime leaves the kind, the pid and the start time of the handle as
\* they were, so that after any sequence of calls they are those of the
\* construction. startTime returns the recorded start time and no error, pid
\* returns the recorded pid. setExternalDescriptors(newFds) changes the
\* descriptor list to newFds and nothing else; no other method changes the
\* descriptor list, and externalDescriptors returns the list the handle holds,
\* which is therefore the list last set (that of the construction when none
\* was set).
C11_StartTimeImmutable ==
    [][ proc.kind # "none" =>
          /\ last'.op \in HandleMethods
          /\ last'.before = proc
          /\ proc'.kind = proc.kind
          /\ proc'.pid = proc.pid
          /\ proc'.processStartTime = proc.processStartTime
          /\ last'.op = "startTime" =>
                /\ last'.err = NoError
                /\ last'.val = <<proc.processStartTime>>
                /\ proc' = proc
          /\ last'.op = "pid" =>
                /\ last'.val = <<proc.pid>>
                /\ proc' = proc
          /\ last'.op = "setExternalDescriptors" =>
                /\ last'.val[1] \in FdLists
                /\ proc' = [proc EXCEPT !.fds = last'.val[1]]
          /\ last'.op # "setExternalDescriptors" => proc'.fds = proc.fds
          /\ last'.op = "externalDescriptors" =>
                /\ last'.val = <<proc.fds>>
                /\ proc' = proc
      ]_vars

\* C11 witness: startTime returned the largest start time on a restored
\* process that had already been waited on and had exited by a signal,
\* and whose descriptor list is full
C11_StartTimeAfterWait ==
    /\ last.op = "startTime"
    /\ last.before.kind = "restored"
    /\ proc.ProcessState = "signaled"
    /\ Len(proc.fds) = MaxFds
    /\ last.err = NoError
    /\ last.val = <<2147483647>>
    /\ proc.processStartTime = 2147483647

====
